---- MODULE Spec2Model ----
(***************************************************************************)
(* Model of the design-pattern demonstrations of src/patterns.            *)
(*                                                                         *)
(* Part 1: the State pattern demo, state.py.  A GumballMachine holds a    *)
(* gumball count and a current state object; every public call is         *)
(* delegated to the current state object, which calls back into the       *)
(* machine (set_state, release_ball, get_count).                          *)
(***************************************************************************)
EXTENDS Integers, Sequences, FiniteSets, TLC

\* ---------------------------------------------------------------- bounds
\* largest num_gumball a machine is constructed with
MaxGumballs == 4
\* most negative num_gumball tried (as -MaxNegative) in SpecCtor
MaxNegative == 2
\* cap on the number of 'A gumball comes rolling out' prints when callers
\* may call release_ball / set_state themselves (SpecPublic)
MaxRolled == 6
\* most insert_quarter(); turn_crank() pairs the cycling client makes (SpecCycle)
MaxCycles == 6

\* ------------------------------------------------------- program constants
\* np.random.randint(10) draws from 0 .. WinnerRange-1
WinnerRange == 10

\* ------------------------------------------------------------ state objects
SoldOutState == "SoldOutState"
NoQuarterState == "NoQuarterState"
HasQuarterState == "HasQuarterState"
SoldState == "SoldState"
WinnerState == "WinnerState"

\* the five state objects a GumballMachine creates in __init__
StateObjects == {SoldOutState, NoQuarterState, HasQuarterState, SoldState, WinnerState}

\* value of `winner` when the last operation drew no random number
NoDraw == -1

VARIABLES
  count,      \* GumballMachine.__count
  state,      \* GumballMachine.__state
  rolled,     \* number of 'A gumball comes rolling out the slot...' prints
  n0,         \* the num_gumball the machine was constructed with
  lastOp,     \* the public method that returned last ("init" after __init__)
  prevOp,     \* the public method that returned before that
  prevState,  \* __state when the last call was made
  prevCount,  \* __count when the last call was made
  pre2State,  \* __state when the call before the last was made
  pre2Count,  \* __count when the call before the last was made
  midState,   \* __state after the state object's handler, before dispense
  winner,     \* the draw of the last turn_crank, NoDraw if it drew nothing
  cycles,     \* the insert_quarter(); turn_crank() pairs the cycling client has completed
  messy_count, \* MessyGumballMachine.__count
  messy_state, \* MessyGumballMachine.__state, a GumballState
  on_cmds,    \* RemoteControl.__on_cmds, a Python list (position i+1 is slot i)
  off_cmds,   \* RemoteControl.__off_cmds
  last_cmd,   \* RemoteControl.__last_cmd
  out,        \* what the lights printed during the last call, in order
  raised,     \* the exception the last call ended with, "none" if it returned
  ran,        \* the command whose execute() the last successful click ran
  args,       \* the arguments of the last RemoteControl call
  remote_n,   \* the n_slots the RemoteControl was constructed with
  lights,     \* per tracked Light: TRUE if its last print was 'is on'
  lightsAtClick, \* lights as it was when the last successful click was made
  maximum,    \* OddNumbers.maximum
  it_n,       \* per OddIterator, in order of creation: its __n
  it_yielded, \* per OddIterator: the values its __next__ has returned so far
  it_last,    \* per OddIterator: "new", or how its last __next__ ended
  logger_instance, \* Logger.__instance: None or the object
  mp_instance, \* MorePythonicLogger.__instance: None or the object
  mp_a,       \* per MorePythonicLogger object: its __a attribute
  heap,       \* the number of objects object.__new__ has allocated
  calls,      \* the calls on the two logger classes so far, with their results
  bpm,        \* BeatModel.__bpm
  bpm_observers, \* BeatModel.__bpm_observers, a Python list
  notified,   \* per observer: the update_bpm calls it got during the last call
  beat_raised, \* the exception the last BeatModel call ended with, or "none"
  beat_arg,   \* the argument of the last BeatModel call
  quackers,   \* per Flock: its __quackers, a Python list
  observers,  \* per duck that has an Observable: the Observable's __observers
  num_quacks, \* the module global NUM_QUACKS
  registered, \* per duck and observer: the registrations the Flock calls owed it
  quacked,    \* the object whose quack() was the last call, "" if none was
  updates     \* the update calls the last call made, in order

\* the variables of the GumballMachine demo that a RemoteControl call leaves alone
gumballVars == <<count, state, rolled, n0, prevState, prevCount,
                 pre2State, pre2Count, midState, winner, cycles>>

\* the variables of the MessyGumballMachine
messyVars == <<messy_count, messy_state>>

\* the variables of the RemoteControl demo
remoteVars == <<on_cmds, off_cmds, last_cmd, out, raised, ran, args>>

\* the light flags kept next to the RemoteControl
lightVars == <<remote_n, lights, lightsAtClick>>

\* the variables of the Iterator demo
iterVars == <<maximum, it_n, it_yielded, it_last>>

\* the variables of the Singleton demo
singletonVars == <<logger_instance, mp_instance, mp_a, heap, calls>>

\* the variables of the BeatModel of the MVC demo
beatVars == <<bpm, bpm_observers, notified, beat_raised, beat_arg>>

\* the variables of the duck simulator of compound.py
flockVars == <<quackers, observers, num_quacks, registered, quacked, updates>>

vars == <<count, state, rolled, n0, lastOp, prevOp, prevState, prevCount,
          pre2State, pre2Count, midState, winner, cycles,
          messy_count, messy_state,
          on_cmds, off_cmds, last_cmd, out, raised, ran, args,
          remote_n, lights, lightsAtClick,
          maximum, it_n, it_yielded, it_last,
          logger_instance, mp_instance, mp_a, heap, calls,
          bpm, bpm_observers, notified, beat_raised, beat_arg,
          quackers, observers, num_quacks, registered, quacked, updates>>

\* the machine's fields as one value, handed through the handlers
Machine == [state |-> state, count |-> count, rolled |-> rolled]

\* ------------------------------------------------ GumballMachine callbacks
GumballMachine_set_state(m, s) == [m EXCEPT !.state = s]

\* mutant: the count > 0 guard is forgotten
Mut_release_ball_no_guard(m) ==
  [m EXCEPT !.rolled = @ + 1, !.count = @ - 1]

\* mutant: the decrement is forgotten
Mut_release_ball_no_decrement(m) == [m EXCEPT !.rolled = @ + 1]

GumballMachine_release_ball(m) ==
  [m EXCEPT !.rolled = @ + 1,
            !.count = IF @ > 0 THEN @ - 1 ELSE @]

\* ----------------------------------------------------- GumballMachine.__init__
\* mutant: an empty machine starts in NoQuarterState (>= for >)
Mut_init_ge(num_gumball) ==
  [state |-> IF num_gumball >= 0 THEN NoQuarterState ELSE SoldOutState,
   count |-> num_gumball,
   rolled |-> 0]

GumballMachine_init(num_gumball) ==
  [state |-> IF num_gumball > 0 THEN NoQuarterState ELSE SoldOutState,
   count |-> num_gumball,
   rolled |-> 0]

\* ------------------------------------------------------------ NoQuarterState
NoQuarterState_insert_quarter(m) == GumballMachine_set_state(m, HasQuarterState)
NoQuarterState_eject_quarter(m) == m
\* mutant: the crank works without a quarter
Mut_NoQuarter_turn_crank_sells(m) == GumballMachine_set_state(m, SoldState)

NoQuarterState_turn_crank(m) == m
NoQuarterState_dispense(m) == m

\* ----------------------------------------------------------- HasQuarterState
HasQuarterState_insert_quarter(m) == m
\* mutant: the quarter is returned but the state is not changed
Mut_HasQuarter_eject_stays(m) == m

HasQuarterState_eject_quarter(m) == GumballMachine_set_state(m, NoQuarterState)

\* mutant: the winner branch is open with one gumball left (> 0 for > 1)
Mut_HasQuarter_turn_crank_gt0(m, w) ==
  IF w = 0 /\ m.count > 0
  THEN GumballMachine_set_state(m, WinnerState)
  ELSE GumballMachine_set_state(m, SoldState)

\* mutant: the count guard of the winner branch is dropped
Mut_HasQuarter_turn_crank_no_guard(m, w) ==
  IF w = 0
  THEN GumballMachine_set_state(m, WinnerState)
  ELSE GumballMachine_set_state(m, SoldState)

\* mutant: `or` for `and` in the winner test
Mut_HasQuarter_turn_crank_or(m, w) ==
  IF w = 0 \/ m.count > 1
  THEN GumballMachine_set_state(m, WinnerState)
  ELSE GumballMachine_set_state(m, SoldState)

HasQuarterState_turn_crank(m, w) ==
  IF w = 0 /\ m.count > 1
  THEN GumballMachine_set_state(m, WinnerState)
  ELSE GumballMachine_set_state(m, SoldState)

HasQuarterState_dispense(m) == m

\* ----------------------------------------------------------------- SoldState
SoldState_insert_quarter(m) == m
SoldState_eject_quarter(m) == m
SoldState_turn_crank(m) == m

\* mutant: sold out is announced one gumball early (> 1 for > 0)
Mut_SoldState_dispense_early(m) ==
  LET m1 == GumballMachine_release_ball(m)
  IN IF m1.count > 1
     THEN GumballMachine_set_state(m1, NoQuarterState)
     ELSE GumballMachine_set_state(m1, SoldOutState)

\* mutant: the else branch is forgotten, an empty machine waits for a quarter
Mut_SoldState_dispense_never_sold_out(m) ==
  GumballMachine_set_state(GumballMachine_release_ball(m), NoQuarterState)

SoldState_dispense(m) ==
  LET m1 == GumballMachine_release_ball(m)
  IN IF m1.count > 0
     THEN GumballMachine_set_state(m1, NoQuarterState)
     ELSE GumballMachine_set_state(m1, SoldOutState)

\* -------------------------------------------------------------- SoldOutState
\* mutant: a sold-out machine accepts the quarter
Mut_SoldOut_insert_accepts(m) == GumballMachine_set_state(m, HasQuarterState)

SoldOutState_insert_quarter(m) == m
\* mutant: a sold-out machine 'returns' a quarter and waits for the next one
Mut_SoldOut_eject_resets(m) == GumballMachine_set_state(m, NoQuarterState)

SoldOutState_eject_quarter(m) == m
\* mutant: the crank of a sold-out machine starts a sale
Mut_SoldOut_turn_crank_sells(m) == GumballMachine_set_state(m, SoldState)

SoldOutState_turn_crank(m) == m
SoldOutState_dispense(m) == m

\* --------------------------------------------------------------- WinnerState
WinnerState_insert_quarter(m) == m
WinnerState_eject_quarter(m) == m
WinnerState_turn_crank(m) == m

\* mutant: the winner gets one gumball only (the inherited SoldState.dispense)
Mut_WinnerState_dispense_once(m) ==
  LET m1 == GumballMachine_release_ball(m)
  IN IF m1.count > 0
     THEN GumballMachine_set_state(m1, NoQuarterState)
     ELSE GumballMachine_set_state(m1, SoldOutState)

WinnerState_dispense(m) ==
  LET m1 == GumballMachine_release_ball(m)
  IN IF m1.count = 0
     THEN GumballMachine_set_state(m1, SoldOutState)
     ELSE LET m2 == GumballMachine_release_ball(m1)
          IN IF m2.count > 0
             THEN GumballMachine_set_state(m2, NoQuarterState)
             ELSE GumballMachine_set_state(m2, SoldOutState)

\* --------------------------------- dynamic dispatch on the current state object
State_insert_quarter(m) ==
  CASE m.state = NoQuarterState -> NoQuarterState_insert_quarter(m)
    [] m.state = HasQuarterState -> HasQuarterState_insert_quarter(m)
    [] m.state = SoldState -> SoldState_insert_quarter(m)
    [] m.state = SoldOutState -> SoldOutState_insert_quarter(m)
    [] m.state = WinnerState -> WinnerState_insert_quarter(m)

State_eject_quarter(m) ==
  CASE m.state = NoQuarterState -> NoQuarterState_eject_quarter(m)
    [] m.state = HasQuarterState -> HasQuarterState_eject_quarter(m)
    [] m.state = SoldState -> SoldState_eject_quarter(m)
    [] m.state = SoldOutState -> SoldOutState_eject_quarter(m)
    [] m.state = WinnerState -> WinnerState_eject_quarter(m)

State_turn_crank(m, w) ==
  CASE m.state = NoQuarterState -> NoQuarterState_turn_crank(m)
    [] m.state = HasQuarterState -> HasQuarterState_turn_crank(m, w)
    [] m.state = SoldState -> SoldState_turn_crank(m)
    [] m.state = SoldOutState -> SoldOutState_turn_crank(m)
    [] m.state = WinnerState -> WinnerState_turn_crank(m)

State_dispense(m) ==
  CASE m.state = NoQuarterState -> NoQuarterState_dispense(m)
    [] m.state = HasQuarterState -> HasQuarterState_dispense(m)
    [] m.state = SoldState -> SoldState_dispense(m)
    [] m.state = SoldOutState -> SoldOutState_dispense(m)
    [] m.state = WinnerState -> WinnerState_dispense(m)

\* --------------------------------------------- GumballMachine public methods
GumballMachine_insert_quarter(m) == State_insert_quarter(m)

GumballMachine_eject_quarter(m) == State_eject_quarter(m)

\* mutant: the dispense call is forgotten
Mut_turn_crank_no_dispense(m, w) == State_turn_crank(m, w)

\* self.__state.turn_crank() and then self.__state.dispense(), the second
\* dispatched on the state the first one left
GumballMachine_turn_crank(m, w) == State_dispense(State_turn_crank(m, w))

\* ------------------------------------------------------ MessyGumballMachine
\* the members of the enumeration GumballState
SOLD_OUT == "SOLD_OUT"
NO_QUARTER == "NO_QUARTER"
HAS_QUARTER == "HAS_QUARTER"
SOLD == "SOLD"

GumballState == {SOLD_OUT, NO_QUARTER, HAS_QUARTER, SOLD}

\* the messy machine's fields as one value
Messy == [state |-> messy_state, count |-> messy_count]

MessyGumballMachine_init(num) ==
  [state |-> IF num > 0 THEN NO_QUARTER ELSE SOLD_OUT, count |-> num]

MessyGumballMachine_insert_quarter(mm) ==
  IF mm.state = HAS_QUARTER THEN mm
  ELSE IF mm.state = NO_QUARTER THEN [mm EXCEPT !.state = HAS_QUARTER]
  ELSE mm

MessyGumballMachine_eject_quarter(mm) ==
  IF mm.state = HAS_QUARTER THEN [mm EXCEPT !.state = NO_QUARTER]
  ELSE mm

MessyGumballMachine_turn_crank(mm) ==
  IF mm.state = HAS_QUARTER THEN [mm EXCEPT !.state = SOLD]
  ELSE mm

\* mutant: the decrement is forgotten
Mut_Messy_dispense_no_decrement(mm) ==
  IF mm.state = SOLD
  THEN IF mm.count = 0
       THEN [mm EXCEPT !.state = SOLD_OUT]
       ELSE [mm EXCEPT !.state = NO_QUARTER]
  ELSE mm

MessyGumballMachine_dispense(mm) ==
  IF mm.state = SOLD
  THEN LET c == mm.count - 1
       IN IF c = 0
          THEN [mm EXCEPT !.count = c, !.state = SOLD_OUT]
          ELSE [mm EXCEPT !.count = c, !.state = NO_QUARTER]
  ELSE mm

\* ======================================================================
\* Part 2: the Command pattern demo, command.py.  A RemoteControl holds two
\* lists of command objects and the command it executed last; a command
\* tells its Light to print.
\* ======================================================================
\* largest n_slots a RemoteControl is constructed with
MaxSlots == 2

\* the two lights of Main.main
LivingRoom == "Living Room"
Kitchen == "Kitchen"

\* the line Light.on (TRUE) or Light.off (FALSE) prints
LightPrint(location, isOn) == [light |-> location, on |-> isOn]

Light_on(location) == <<LightPrint(location, TRUE)>>
Light_off(location) == <<LightPrint(location, FALSE)>>

\* command objects: the class, the light of a Light*Command, the cmd_list
\* of a MacroCommand
NullCommand == [kind |-> "NullCommand", light |-> "", cmds |-> <<>>]
LightOnCommand(l) == [kind |-> "LightOnCommand", light |-> l, cmds |-> <<>>]
LightOffCommand(l) == [kind |-> "LightOffCommand", light |-> l, cmds |-> <<>>]
MacroCommand(cmd_list) == [kind |-> "MacroCommand", light |-> "", cmds |-> cmd_list]

\* Python's None, an object that is no command
NoneObject == [kind |-> "None", light |-> "", cmds |-> <<>>]

\* isinstance(c, AbsCommand)
IsAbsCommand(c) ==
  c.kind \in {"NullCommand", "LightOnCommand", "LightOffCommand", "MacroCommand"}

NullCommand_execute(c) == <<>>
NullCommand_unexecute(c) == <<>>

LightOnCommand_execute(c) == Light_on(c.light)
\* mutant: the undo of 'on' switches the light on again (copied line)
Mut_LightOn_unexecute_on(c) == Light_on(c.light)

LightOnCommand_unexecute(c) == Light_off(c.light)

LightOffCommand_execute(c) == Light_off(c.light)
LightOffCommand_unexecute(c) == Light_on(c.light)

RECURSIVE AbsCommand_execute(_), AbsCommand_unexecute(_)

\* for cmd in self.__cmd_list: cmd.execute()
MacroCommand_execute(c) ==
  IF c.cmds = <<>>
  THEN <<>>
  ELSE AbsCommand_execute(Head(c.cmds))
         \o AbsCommand_execute(MacroCommand(Tail(c.cmds)))

\* mutant: the undo of a macro runs in reversed order
Mut_MacroCommand_unexecute_reversed(c) ==
  IF c.cmds = <<>>
  THEN <<>>
  ELSE AbsCommand_unexecute(MacroCommand(Tail(c.cmds)))
         \o AbsCommand_unexecute(Head(c.cmds))

\* for cmd in self.__cmd_list: cmd.unexecute()
MacroCommand_unexecute(c) ==
  IF c.cmds = <<>>
  THEN <<>>
  ELSE AbsCommand_unexecute(Head(c.cmds))
         \o AbsCommand_unexecute(MacroCommand(Tail(c.cmds)))

\* dynamic dispatch of cmd.execute()
AbsCommand_execute(c) ==
  CASE c.kind = "NullCommand" -> NullCommand_execute(c)
    [] c.kind = "LightOnCommand" -> LightOnCommand_execute(c)
    [] c.kind = "LightOffCommand" -> LightOffCommand_execute(c)
    [] c.kind = "MacroCommand" -> MacroCommand_execute(c)

\* dynamic dispatch of cmd.unexecute()
AbsCommand_unexecute(c) ==
  CASE c.kind = "NullCommand" -> NullCommand_unexecute(c)
    [] c.kind = "LightOnCommand" -> LightOnCommand_unexecute(c)
    [] c.kind = "LightOffCommand" -> LightOffCommand_unexecute(c)
    [] c.kind = "MacroCommand" -> MacroCommand_unexecute(c)

\* Python list indexing lst[idx]: -len(lst) <= idx < len(lst) is in range,
\* a negative idx counting from the end; anything else is an IndexError
ListIndexInRange(lst, idx) == 0 - Len(lst) <= idx /\ idx < Len(lst)
ListPosition(lst, idx) == IF idx >= 0 THEN idx + 1 ELSE Len(lst) + idx + 1

\* the RemoteControl's fields as one value
Remote == [on_cmds |-> on_cmds, off_cmds |-> off_cmds, last_cmd |-> last_cmd]

\* the outcome of a call: the fields afterwards, what the lights printed,
\* the exception, and the command whose execute() ran (NoneObject if none)
Outcome(rc, printed, exc, executed) ==
  [rc |-> rc, out |-> printed, raised |-> exc, ran |-> executed]

\* mutant: one off slot too many
Mut_RemoteControl_init_extra_off(n_slots) ==
  [on_cmds |-> [i \in 1..n_slots |-> NullCommand],
   off_cmds |-> [i \in 1..(n_slots + 1) |-> NullCommand],
   last_cmd |-> NullCommand]

\* mutant: the last command starts as None
Mut_RemoteControl_init_none(n_slots) ==
  [on_cmds |-> [i \in 1..n_slots |-> NullCommand],
   off_cmds |-> [i \in 1..n_slots |-> NullCommand],
   last_cmd |-> NoneObject]

RemoteControl_init(n_slots) ==
  [on_cmds |-> [i \in 1..n_slots |-> NullCommand],
   off_cmds |-> [i \in 1..n_slots |-> NullCommand],
   last_cmd |-> NullCommand]

\* mutant: the off binding is forgotten
Mut_set_command_on_only(rc, idx, on_cmd, off_cmd) ==
  IF ~(IsAbsCommand(on_cmd) /\ IsAbsCommand(off_cmd))
  THEN Outcome(rc, <<>>, "AssertionError", NoneObject)
  ELSE IF ~(0 <= idx /\ idx < Len(rc.on_cmds))
  THEN Outcome(rc, <<>>, "AssertionError", NoneObject)
  ELSE Outcome([rc EXCEPT !.on_cmds[ListPosition(rc.on_cmds, idx)] = on_cmd],
               <<>>, "none", NoneObject)

\* mutant: the index assertion is forgotten, the list assignments decide
Mut_set_command_no_assert(rc, idx, on_cmd, off_cmd) ==
  IF ~(IsAbsCommand(on_cmd) /\ IsAbsCommand(off_cmd))
  THEN Outcome(rc, <<>>, "AssertionError", NoneObject)
  ELSE IF ~ListIndexInRange(rc.on_cmds, idx)
  THEN Outcome(rc, <<>>, "IndexError", NoneObject)
  ELSE Outcome([rc EXCEPT !.on_cmds[ListPosition(rc.on_cmds, idx)] = on_cmd,
                          !.off_cmds[ListPosition(rc.off_cmds, idx)] = off_cmd],
               <<>>, "none", NoneObject)

RemoteControl_set_command(rc, idx, on_cmd, off_cmd) ==
  IF ~(IsAbsCommand(on_cmd) /\ IsAbsCommand(off_cmd))
  THEN Outcome(rc, <<>>, "AssertionError", NoneObject)
  ELSE IF ~(0 <= idx /\ idx < Len(rc.on_cmds))
  THEN Outcome(rc, <<>>, "AssertionError", NoneObject)
  ELSE Outcome([rc EXCEPT !.on_cmds[ListPosition(rc.on_cmds, idx)] = on_cmd,
                          !.off_cmds[ListPosition(rc.off_cmds, idx)] = off_cmd],
               <<>>, "none", NoneObject)

RemoteControl_click_on(rc, idx) ==
  IF ~ListIndexInRange(rc.on_cmds, idx)
  THEN Outcome(rc, <<>>, "IndexError", NoneObject)
  ELSE LET cmd == rc.on_cmds[ListPosition(rc.on_cmds, idx)]
       IN Outcome([rc EXCEPT !.last_cmd = cmd],
                  AbsCommand_execute(cmd), "none", cmd)

\* mutant: the off button remembers the on command (copied line)
Mut_click_off_remembers_on(rc, idx) ==
  IF ~ListIndexInRange(rc.off_cmds, idx)
  THEN Outcome(rc, <<>>, "IndexError", NoneObject)
  ELSE LET cmd == rc.off_cmds[ListPosition(rc.off_cmds, idx)]
       IN Outcome([rc EXCEPT !.last_cmd = rc.on_cmds[ListPosition(rc.on_cmds, idx)]],
                  AbsCommand_execute(cmd), "none", cmd)

RemoteControl_click_off(rc, idx) ==
  IF ~ListIndexInRange(rc.off_cmds, idx)
  THEN Outcome(rc, <<>>, "IndexError", NoneObject)
  ELSE LET cmd == rc.off_cmds[ListPosition(rc.off_cmds, idx)]
       IN Outcome([rc EXCEPT !.last_cmd = cmd],
                  AbsCommand_execute(cmd), "none", cmd)

\* mutant: undo forgets the command it has undone
Mut_undo_clears(rc) ==
  IF ~IsAbsCommand(rc.last_cmd)
  THEN Outcome(rc, <<>>, "AttributeError", NoneObject)
  ELSE Outcome([rc EXCEPT !.last_cmd = NullCommand],
               AbsCommand_unexecute(rc.last_cmd), "none", NoneObject)

\* mutant: undo runs the command again
Mut_undo_reexecutes(rc) ==
  IF ~IsAbsCommand(rc.last_cmd)
  THEN Outcome(rc, <<>>, "AttributeError", NoneObject)
  ELSE Outcome(rc, AbsCommand_execute(rc.last_cmd), "none", NoneObject)

\* self.__last_cmd.unexecute(): an object without that method is an
\* AttributeError
RemoteControl_undo(rc) ==
  IF ~IsAbsCommand(rc.last_cmd)
  THEN Outcome(rc, <<>>, "AttributeError", NoneObject)
  ELSE Outcome(rc, AbsCommand_unexecute(rc.last_cmd), "none", NoneObject)

\* ======================================================================
\* Part 3: the smaller demos.
\* ======================================================================
\* Python's None
None == 0

\* BeatModel.__init__: the fields the bpm observers depend on
BeatModel_init == [bpm |-> 90, bpm_observers |-> <<>>]

\* ------------------------------------------------------------ iterator.py
\* largest maximum an OddNumbers container is constructed with
MaxMaximum == 7
\* most __iter__ calls on the container
MaxIterators == 2
\* __next__ is not called on an iterator whose __n has reached this value
MaxIterN == 11

\* OddNumbers.__init__
OddNumbers_init(m) == [maximum |-> m]

\* OddIterator.__init__
OddIterator_init == [n |-> -1]

\* mutant: the maximum itself is not yielded (>= for >)
Mut_OddIterator_next_ge(it, container) ==
  LET n2 == it.n + 2
  IN IF n2 >= container.maximum
     THEN [it |-> [n |-> n2], raised |-> "StopIteration", value |-> None]
     ELSE [it |-> [n |-> n2], raised |-> "none", value |-> n2]

\* OddIterator.__next__: __n is advanced before the test, also when it raises
OddIterator_next(it, container) ==
  LET n2 == it.n + 2
  IN IF n2 > container.maximum
     THEN [it |-> [n |-> n2], raised |-> "StopIteration", value |-> None]
     ELSE [it |-> [n |-> n2], raised |-> "none", value |-> n2]

\* ----------------------------------------------------------- singleton.py
\* most calls made on the two logger classes
MaxCalls == 4
\* the arguments 1 .. MaxA are passed to MorePythonicLogger
MaxA == 2

\* the class attributes and the objects of singleton.py as one value
Singletons ==
  [logger_instance |-> logger_instance, mp_instance |-> mp_instance,
   mp_a |-> mp_a, heap |-> heap]

\* the outcome of a call on a class: the result (None if it raised), the
\* exception, and whether 'Creating new instance' was printed
CallOutcome(st, res, exc, msg) ==
  [st |-> st, result |-> res, raised |-> exc, printed |-> msg]

\* object.__new__: a new object, named by its number
object_new(st) == [st EXCEPT !.heap = @ + 1]

\* Logger(): type.__call__ runs __new__ and then __init__, which raises; the
\* object just allocated is dropped
Logger_call(st) ==
  CallOutcome(object_new(st), None, "RuntimeError", FALSE)

\* mutant: the None test is forgotten, every call creates
Mut_Logger_instance_always_new(st) ==
  LET st1 == object_new(st)
  IN CallOutcome([st1 EXCEPT !.logger_instance = st1.heap],
                 st1.heap, "none", TRUE)

\* Logger.instance()
Logger_instance(st) ==
  IF st.logger_instance = None
  THEN LET st1 == object_new(st)
       IN CallOutcome([st1 EXCEPT !.logger_instance = st1.heap],
                      st1.heap, "none", TRUE)
  ELSE CallOutcome(st, st.logger_instance, "none", FALSE)

\* mutant: __new__ is the inherited one, every call creates
Mut_MorePythonicLogger_new_always(st) ==
  LET st1 == object_new(st)
  IN CallOutcome([st1 EXCEPT !.mp_instance = st1.heap], st1.heap, "none", TRUE)

\* MorePythonicLogger.__new__
MorePythonicLogger_new(st) ==
  IF st.mp_instance = None
  THEN LET st1 == object_new(st)
       IN CallOutcome([st1 EXCEPT !.mp_instance = st1.heap],
                      st1.heap, "none", TRUE)
  ELSE CallOutcome(st, st.mp_instance, "none", FALSE)

\* MorePythonicLogger.__init__(self, a)
MorePythonicLogger_init(st, self, a) ==
  [st EXCEPT !.mp_a = (self :> a) @@ @]

\* MorePythonicLogger(a): type.__call__ runs __new__ and then __init__ on
\* the object __new__ returned
MorePythonicLogger_call(st, a) ==
  LET made == MorePythonicLogger_new(st)
  IN [made EXCEPT !.st = MorePythonicLogger_init(made.st, made.result, a)]

\* MorePythonicLogger.get_a through the reference self
MorePythonicLogger_get_a(st, self) == st.mp_a[self]

\* ------------------------------------------------------------------ MVC.py
\* most register_bpm_observer calls
MaxObservers == 3

\* the bpm observers a client registers
BpmObservers == {"view1", "view2"}

\* the bpm values a client sets
BpmChoices == {60, 120}

\* the methods class BeatModel has (its own and the inherited ones)
BeatModelMethods ==
  {"initialize", "on", "off", "run", "set_bpm", "get_bpm",
   "register_beat_observer", "register_bpm_observer",
   "remove_beat_observer", "remove_bpm_observer",
   "notify_beat_observers", "notify_bpm_observers"}

\* the BeatModel's fields as one value
Beat == [bpm |-> bpm, bpm_observers |-> bpm_observers]

\* the outcome of a BeatModel call: the fields afterwards, the exception, and
\* the observers whose update_bpm was called, in order
BeatOutcome(m, exc, updated) == [m |-> m, raised |-> exc, notified |-> updated]

\* BeatModel.notify_bpm_observers: update_bpm on every entry of the list
BeatModel_notify_bpm_observers(m) == BeatOutcome(m, "none", m.bpm_observers)

\* BeatModel.register_bpm_observer
BeatModel_register_bpm_observer(m, o) ==
  BeatOutcome([m EXCEPT !.bpm_observers = Append(@, o)], "none", <<>>)

\* BeatModel.on
BeatModel_on(m) == BeatModel_notify_bpm_observers([m EXCEPT !.bpm = 90])

\* BeatModel.set_bpm: the bpm is stored, then self.notify_bpm_observer() is
\* looked up, which is an AttributeError unless the class has that method
BeatModel_set_bpm(m, b) ==
  LET m1 == [m EXCEPT !.bpm = b]
  IN IF "notify_bpm_observer" \in BeatModelMethods
     THEN BeatModel_notify_bpm_observers(m1)
     ELSE BeatOutcome(m1, "AttributeError", <<>>)

\* BeatModel.get_bpm
BeatModel_get_bpm(m) == m.bpm

\* ======================================================================
\* Part 4: the duck simulator of compound.py.  Ducks notify the observers
\* registered on their Observable; a QuackCounter wraps a quackable; a Flock
\* holds a list of quackables and hands quack and register_observer on.
\* ======================================================================
\* most quackers all Flocks hold together
MaxQuackers == 3
\* most entries of one Observable's list of observers
MaxRegistered == 2
\* cap on NUM_QUACKS
MaxQuacks == 2

\* the objects the simulator has constructed: a RedHeadDuck and the
\* QuackCounter the CountingDuckFactory put around it, a GooseAdapter, two
\* Flocks, and a QuackCounter around the second Flock
RedHeadDuck == "RedHeadDuck"
goose_duck == "goose_duck"
red_head_duck == "red_head_duck"
flock_counter == "flock_counter"
flock_of_ducks == "flock_of_ducks"
flock_of_mallards == "flock_of_mallards"

\* the quackables that own an Observable
Ducks == {RedHeadDuck, goose_duck}
QuackCounters == {red_head_duck, flock_counter}
Flocks == {flock_of_ducks, flock_of_mallards}
Quackables == Ducks \cup QuackCounters \cup Flocks

\* QuackCounter.__duck of each QuackCounter
QuackCounter_duck ==
  (red_head_duck :> RedHeadDuck) @@ (flock_counter :> flock_of_mallards)

\* the observer a client registers
Quackologists == {"quackologist"}

\* the objects' fields and the global as one value
Pond == [quackers |-> quackers, observers |-> observers, num_quacks |-> num_quacks]

\* Flock.__init__ and Observable.__init__ of every object, NUM_QUACKS = 0
Pond_init ==
  [quackers |-> [f \in Flocks |-> <<>>],
   observers |-> [d \in Ducks |-> <<>>],
   num_quacks |-> 0]

\* Flock.add
Flock_add(p, f, quacker) == [p EXCEPT !.quackers[f] = Append(@, quacker)]

\* Observable.register_observer, reached through the duck's register_observer
Observable_register_observer(p, d, observer) ==
  [p EXCEPT !.observers[d] = Append(@, observer)]

\* Observable.notify_observer: the update calls it makes, in order
Observable_notify_observer(p, d) ==
  [i \in 1..Len(p.observers[d]) |-> [observer |-> p.observers[d][i], duck |-> d]]

RECURSIVE AbsQuackable_register_observer(_, _, _), AbsQuackable_quack(_, _)
RECURSIVE RegisterEach(_, _, _), QuackEach(_, _)

\* for quacker in quackers: quacker.register_observer(observer)
RegisterEach(p, qs, observer) ==
  IF qs = <<>>
  THEN p
  ELSE RegisterEach(AbsQuackable_register_observer(p, Head(qs), observer),
                    Tail(qs), observer)

\* for quacker in quackers: quacker.quack()
QuackEach(p, qs) ==
  IF qs = <<>>
  THEN [pond |-> p, updates |-> <<>>]
  ELSE LET r1 == AbsQuackable_quack(p, Head(qs))
           r2 == QuackEach(r1.pond, Tail(qs))
       IN [pond |-> r2.pond, updates |-> r1.updates \o r2.updates]

\* MallardDuck.register_observer and the like
Duck_register_observer(p, d, observer) ==
  Observable_register_observer(p, d, observer)

\* mutant: the wrapper keeps the registration to itself, as its
\* notify_observer does
Mut_QuackCounter_register_observer_pass(p, c, observer) == p

QuackCounter_register_observer(p, c, observer) ==
  AbsQuackable_register_observer(p, QuackCounter_duck[c], observer)

Flock_register_observer(p, f, observer) ==
  RegisterEach(p, p.quackers[f], observer)

\* MallardDuck.quack and the like: print, then notify_observer
Duck_quack(p, d) == [pond |-> p, updates |-> Observable_notify_observer(p, d)]

QuackCounter_quack(p, c) ==
  LET r == AbsQuackable_quack(p, QuackCounter_duck[c])
  IN [r EXCEPT !.pond.num_quacks = @ + 1]

Flock_quack(p, f) == QuackEach(p, p.quackers[f])

\* dynamic dispatch of quacker.register_observer(observer)
AbsQuackable_register_observer(p, q, observer) ==
  CASE q \in Ducks -> Duck_register_observer(p, q, observer)
    [] q \in QuackCounters -> QuackCounter_register_observer(p, q, observer)
    [] q \in Flocks -> Flock_register_observer(p, q, observer)

\* dynamic dispatch of quacker.quack()
AbsQuackable_quack(p, q) ==
  CASE q \in Ducks -> Duck_quack(p, q)
    [] q \in QuackCounters -> QuackCounter_quack(p, q)
    [] q \in Flocks -> Flock_quack(p, q)

RECURSIVE Reach(_, _), Occurrences(_, _, _), OccurrencesIn(_, _, _)

\* the objects a call on q can reach, q included
Reach(p, q) ==
  {q} \cup
    (CASE q \in Ducks -> {}
       [] q \in QuackCounters -> Reach(p, QuackCounter_duck[q])
       [] q \in Flocks ->
            UNION {Reach(p, p.quackers[q][i]) : i \in 1..Len(p.quackers[q])})

\* how often the duck d is among the quackers in qs, through nested Flocks
\* and QuackCounters
OccurrencesIn(p, qs, d) ==
  IF qs = <<>>
  THEN 0
  ELSE Occurrences(p, Head(qs), d) + OccurrencesIn(p, Tail(qs), d)

\* how often q holds the duck d
Occurrences(p, q, d) ==
  CASE q \in Ducks -> IF q = d THEN 1 ELSE 0
    [] q \in QuackCounters -> Occurrences(p, QuackCounter_duck[q], d)
    [] q \in Flocks -> OccurrencesIn(p, p.quackers[q], d)

\* the quackers all Flocks hold together
QuackersHeld(p) == Len(p.quackers[flock_of_ducks]) + Len(p.quackers[flock_of_mallards])

\* ------------------------------------------------------------------ actions
\* the bookkeeping every returning call does: mid is the machine after the
\* state object's first handler, m2 the machine when the call returns
Called(op, mid, m2, w) ==
  /\ state' = m2.state
  /\ count' = m2.count
  /\ rolled' = m2.rolled
  /\ midState' = mid.state
  /\ winner' = w
  /\ lastOp' = op
  /\ prevOp' = lastOp
  /\ prevState' = state
  /\ prevCount' = count
  /\ pre2State' = prevState
  /\ pre2Count' = prevCount
  /\ UNCHANGED n0
  /\ UNCHANGED remoteVars
  /\ UNCHANGED <<lightVars, iterVars, singletonVars, beatVars, flockVars>>

\* a call that is not the end of a pair of the cycling client
Returned(op, mid, m2, w) ==
  Called(op, mid, m2, w) /\ UNCHANGED cycles /\ UNCHANGED messyVars

insert_quarter ==
  LET m2 == GumballMachine_insert_quarter(Machine)
  IN Returned("insert_quarter", m2, m2, NoDraw)

eject_quarter ==
  LET m2 == GumballMachine_eject_quarter(Machine)
  IN Returned("eject_quarter", m2, m2, NoDraw)

turn_crank ==
  \E w \in 0..(WinnerRange - 1) :
    Returned("turn_crank", State_turn_crank(Machine, w),
             GumballMachine_turn_crank(Machine, w),
             IF state = HasQuarterState THEN w ELSE NoDraw)

\* a caller outside the state objects calls the public set_state with one of
\* the state objects the public getters hand out
set_state ==
  \E s \in StateObjects :
    LET m2 == GumballMachine_set_state(Machine, s)
    IN Returned("set_state", m2, m2, NoDraw)

\* a caller outside the state objects calls the public release_ball
release_ball ==
  /\ rolled < MaxRolled
  /\ LET m2 == GumballMachine_release_ball(Machine)
     IN Returned("release_ball", m2, m2, NoDraw)

\* the client of __main__, which repeats insert_quarter(); turn_crank():
\* the first call of a pair
cycle_insert_quarter ==
  /\ lastOp \in {"init", "turn_crank"}
  /\ cycles < MaxCycles
  /\ insert_quarter

\* the second call of a pair, which completes it
cycle_turn_crank ==
  /\ lastOp = "insert_quarter"
  /\ \E w \in 0..(WinnerRange - 1) :
       Called("turn_crank", State_turn_crank(Machine, w),
              GumballMachine_turn_crank(Machine, w),
              IF state = HasQuarterState THEN w ELSE NoDraw)
  /\ cycles' = cycles + 1
  /\ UNCHANGED messyVars

\* a client that makes every call on a GumballMachine and on a
\* MessyGumballMachine, with dispense() right after the messy turn_crank()
MessyReturned(mm) ==
  /\ messy_state' = mm.state
  /\ messy_count' = mm.count
  /\ UNCHANGED cycles

both_insert_quarter ==
  /\ LET m2 == GumballMachine_insert_quarter(Machine)
     IN Called("insert_quarter", m2, m2, NoDraw)
  /\ MessyReturned(MessyGumballMachine_insert_quarter(Messy))

both_eject_quarter ==
  /\ LET m2 == GumballMachine_eject_quarter(Machine)
     IN Called("eject_quarter", m2, m2, NoDraw)
  /\ MessyReturned(MessyGumballMachine_eject_quarter(Messy))

\* the draws of the GumballMachine are the non-winning ones
both_turn_crank ==
  /\ \E w \in 1..(WinnerRange - 1) :
       Called("turn_crank", State_turn_crank(Machine, w),
              GumballMachine_turn_crank(Machine, w),
              IF state = HasQuarterState THEN w ELSE NoDraw)
  /\ MessyReturned(MessyGumballMachine_dispense(
                     MessyGumballMachine_turn_crank(Messy)))

\* ------------------------------------------------- RemoteControl actions
\* the command objects Main.main creates
light1oncmd == LightOnCommand(LivingRoom)
light1offcmd == LightOffCommand(LivingRoom)
light2oncmd == LightOnCommand(Kitchen)
light2offcmd == LightOffCommand(Kitchen)
macro_on_cmd == MacroCommand(<<light1oncmd, light2oncmd>>)
macro_off_cmd == MacroCommand(<<light1offcmd, light2offcmd>>)

\* the (on_cmd, off_cmd) pairs a client binds, those of Main.main
CommandPairs ==
  {<<light1oncmd, light1offcmd>>,
   <<light2oncmd, light2offcmd>>,
   <<macro_on_cmd, macro_off_cmd>>}

\* the idx values a client passes: in range, negative, and too large
SlotIndexes == (0 - MaxSlots - 1)..MaxSlots

\* a Light as an on/off flag: the flags after the lights printed the lines
\* of printed, the last line of a light deciding
RECURSIVE LightsAfter(_, _)
LightsAfter(flags, printed) ==
  IF printed = <<>>
  THEN flags
  ELSE LightsAfter([l \in DOMAIN flags |->
                      IF l = Head(printed).light THEN Head(printed).on ELSE flags[l]],
                   Tail(printed))

\* the bookkeeping every RemoteControl call does, returning or raising
RemoteReturned(op, a, res) ==
  /\ on_cmds' = res.rc.on_cmds
  /\ off_cmds' = res.rc.off_cmds
  /\ last_cmd' = res.rc.last_cmd
  /\ out' = res.out
  /\ raised' = res.raised
  /\ ran' = IF res.ran = NoneObject THEN ran ELSE res.ran
  /\ args' = a
  /\ lastOp' = op
  /\ prevOp' = lastOp
  /\ lights' = LightsAfter(lights, res.out)
  /\ lightsAtClick' = IF op \in {"click_on", "click_off"} /\ res.raised = "none"
                      THEN lights ELSE lightsAtClick
  /\ UNCHANGED remote_n
  /\ UNCHANGED <<gumballVars, messyVars>>
  /\ UNCHANGED <<iterVars, singletonVars, beatVars, flockVars>>

set_command ==
  \E idx \in SlotIndexes, p \in CommandPairs :
    RemoteReturned("set_command", <<idx, p[1], p[2]>>,
                   RemoteControl_set_command(Remote, idx, p[1], p[2]))

click_on ==
  \E idx \in SlotIndexes :
    RemoteReturned("click_on", <<idx>>, RemoteControl_click_on(Remote, idx))

click_off ==
  \E idx \in SlotIndexes :
    RemoteReturned("click_off", <<idx>>, RemoteControl_click_off(Remote, idx))

undo == RemoteReturned("undo", <<>>, RemoteControl_undo(Remote))

\* ------------------------------------------------------- iterator actions
\* iter(numbers): OddNumbers.__iter__ returns a new OddIterator
OddNumbers_iter ==
  /\ Len(it_n) < MaxIterators
  /\ it_n' = Append(it_n, OddIterator_init.n)
  /\ it_yielded' = Append(it_yielded, <<>>)
  /\ it_last' = Append(it_last, "new")
  /\ lastOp' = "__iter__"
  /\ prevOp' = lastOp
  /\ UNCHANGED maximum
  /\ UNCHANGED <<gumballVars, messyVars, remoteVars, lightVars, singletonVars, beatVars, flockVars>>

\* next(it) on one of the iterators made so far
OddIterator_next_call ==
  \E i \in 1..Len(it_n) :
    /\ it_n[i] < MaxIterN
    /\ LET res == OddIterator_next([n |-> it_n[i]], [maximum |-> maximum])
       IN /\ it_n' = [it_n EXCEPT ![i] = res.it.n]
          /\ it_yielded' = IF res.raised = "none"
                           THEN [it_yielded EXCEPT ![i] = Append(@, res.value)]
                           ELSE it_yielded
          /\ it_last' = [it_last EXCEPT ![i] = res.raised]
    /\ lastOp' = "__next__"
    /\ prevOp' = lastOp
    /\ UNCHANGED maximum
    /\ UNCHANGED <<gumballVars, messyVars, remoteVars, lightVars, singletonVars, beatVars, flockVars>>

\* ------------------------------------------------------ singleton actions
\* the bookkeeping of a call on one of the logger classes
ClassCalled(op, a, res) ==
  /\ Len(calls) < MaxCalls
  /\ logger_instance' = res.st.logger_instance
  /\ mp_instance' = res.st.mp_instance
  /\ mp_a' = res.st.mp_a
  /\ heap' = res.st.heap
  /\ calls' = Append(calls, [op |-> op, arg |-> a, result |-> res.result,
                             raised |-> res.raised, printed |-> res.printed])
  /\ lastOp' = op
  /\ prevOp' = lastOp
  /\ UNCHANGED <<gumballVars, messyVars, remoteVars, lightVars, iterVars, beatVars, flockVars>>

call_Logger == ClassCalled("Logger", None, Logger_call(Singletons))

call_Logger_instance ==
  ClassCalled("Logger.instance", None, Logger_instance(Singletons))

call_MorePythonicLogger ==
  \E a \in 1..MaxA :
    ClassCalled("MorePythonicLogger", a, MorePythonicLogger_call(Singletons, a))

\* ------------------------------------------------------ BeatModel actions
\* the bookkeeping of a BeatModel call, returning or raising
BeatCalled(op, a, res) ==
  /\ bpm' = res.m.bpm
  /\ bpm_observers' = res.m.bpm_observers
  /\ notified' = res.notified
  /\ beat_raised' = res.raised
  /\ beat_arg' = a
  /\ lastOp' = op
  /\ prevOp' = lastOp
  /\ UNCHANGED <<gumballVars, messyVars, remoteVars, lightVars, iterVars, singletonVars, flockVars>>

register_bpm_observer ==
  /\ Len(bpm_observers) < MaxObservers
  /\ \E o \in BpmObservers :
       BeatCalled("register_bpm_observer", o,
                  BeatModel_register_bpm_observer(Beat, o))

beat_on == BeatCalled("on", None, BeatModel_on(Beat))

set_bpm ==
  \E b \in BpmChoices : BeatCalled("set_bpm", b, BeatModel_set_bpm(Beat, b))

\* -------------------------------------------------- duck simulator actions
\* the bookkeeping of a call of the simulator: p2 is the pond when the call
\* returns, q the object if the call was its quack(), updated the update
\* calls made
FlockReturned(p2, q, updated, owed) ==
  /\ quackers' = p2.quackers
  /\ observers' = p2.observers
  /\ num_quacks' = p2.num_quacks
  /\ registered' = owed
  /\ quacked' = q
  /\ updates' = updated
  /\ UNCHANGED <<lastOp, prevOp>>
  /\ UNCHANGED <<gumballVars, messyVars, remoteVars, lightVars>>
  /\ UNCHANGED <<iterVars, singletonVars, beatVars>>

\* flock.add(quacker), for a quacker that does not hold the flock itself (a
\* Flock that holds itself makes quack and register_observer recurse until
\* Python raises RecursionError; the client builds no such Flock)
flock_add ==
  \E f \in Flocks, q \in Quackables :
    /\ QuackersHeld(Pond) < MaxQuackers
    /\ f \notin Reach(Pond, q)
    /\ FlockReturned(Flock_add(Pond, f, q), "", <<>>, registered)

\* flock.register_observer(observer); every duck the flock holds at this
\* moment is owed one registration for each time the flock holds it
flock_register_observer ==
  \E f \in Flocks, o \in Quackologists :
    /\ \A d \in Ducks :
         Len(observers[d]) + Occurrences(Pond, f, d) <= MaxRegistered
    /\ FlockReturned(Flock_register_observer(Pond, f, o), "", <<>>,
                     [d \in Ducks |->
                        [x \in Quackologists |->
                           registered[d][x]
                             + (IF x = o THEN Occurrences(Pond, f, d) ELSE 0)]])

\* quacker.quack() on any of the objects
quack ==
  \E q \in Quackables :
    LET r == AbsQuackable_quack(Pond, q)
    IN /\ r.pond.num_quacks <= MaxQuacks
       /\ FlockReturned(r.pond, q, r.updates, registered)

\* ----------------------------------------------------------- specifications
\* the state right after GumballMachine(n) returned
Constructed(n) ==
  LET m == GumballMachine_init(n)
  IN /\ state = m.state
     /\ count = m.count
     /\ rolled = m.rolled
     /\ n0 = n
     /\ lastOp = "init"
     /\ prevOp = "none"
     /\ prevState = m.state
     /\ prevCount = m.count
     /\ pre2State = m.state
     /\ pre2Count = m.count
     /\ midState = m.state
     /\ winner = NoDraw
     /\ cycles = 0

\* the state right after RemoteControl(n) returned
RemoteConstructed(n) ==
  LET rc == RemoteControl_init(n)
  IN /\ on_cmds = rc.on_cmds
     /\ off_cmds = rc.off_cmds
     /\ last_cmd = rc.last_cmd
     /\ out = <<>>
     /\ raised = "none"
     /\ ran = NoneObject
     /\ args = <<>>
     /\ remote_n = n

\* no Light is tracked as a flag
NoLights == lights = <<>> /\ lightsAtClick = <<>>

\* no OddNumbers container exists
NoIterable ==
  /\ maximum = 0
  /\ it_n = <<>>
  /\ it_yielded = <<>>
  /\ it_last = <<>>

\* singleton.py was imported and no logger class has been called
NoLoggerCall ==
  /\ logger_instance = None
  /\ mp_instance = None
  /\ mp_a = <<>>
  /\ heap = 0
  /\ calls = <<>>

\* no BeatModel call has been made
NoBeatCall ==
  /\ bpm = BeatModel_init.bpm
  /\ bpm_observers = BeatModel_init.bpm_observers
  /\ notified = <<>>
  /\ beat_raised = "none"
  /\ beat_arg = None

\* the state right after MessyGumballMachine(n) returned
MessyConstructed(n) ==
  LET mm == MessyGumballMachine_init(n)
  IN messy_state = mm.state /\ messy_count = mm.count

\* the simulator's objects are constructed and no call has been made
NoFlockCall ==
  /\ quackers = Pond_init.quackers
  /\ observers = Pond_init.observers
  /\ num_quacks = Pond_init.num_quacks
  /\ registered = [d \in Ducks |-> [x \in Quackologists |-> 0]]
  /\ quacked = ""
  /\ updates = <<>>

\* the demos a specification does not drive
GumballIdle == Constructed(0) /\ MessyConstructed(0)
RemoteIdle == RemoteConstructed(0) /\ NoLights
OthersIdle == NoIterable /\ NoLoggerCall /\ NoBeatCall /\ NoFlockCall

Init ==
  /\ \E n \in 0..MaxGumballs : Constructed(n)
  /\ MessyConstructed(0)
  /\ RemoteIdle
  /\ OthersIdle

\* a client that uses the AbsGumballMachine interface only
Next == insert_quarter \/ eject_quarter \/ turn_crank

Spec == Init /\ [][Next]_vars

\* a client that also calls the other public methods of GumballMachine
NextPublic ==
  \/ insert_quarter
  \/ eject_quarter
  \/ (rolled + 2 <= MaxRolled /\ turn_crank)
  \/ set_state
  \/ release_ball

SpecPublic == Init /\ [][NextPublic]_vars

\* a client that may construct the machine with any integer
InitCtor ==
  /\ \E n \in (0 - MaxNegative)..MaxGumballs : Constructed(n)
  /\ MessyConstructed(0)
  /\ RemoteIdle
  /\ OthersIdle

SpecCtor == InitCtor /\ [][Next]_vars

\* a client that also calls the public release_ball, but not set_state
NextRelease == insert_quarter \/ eject_quarter \/ turn_crank \/ release_ball

SpecRelease == Init /\ [][NextRelease]_vars

\* the client of __main__: a machine with at least one gumball, and pairs of
\* insert_quarter(); turn_crank()
InitCycle ==
  /\ \E n \in 1..MaxGumballs : Constructed(n)
  /\ MessyConstructed(0)
  /\ RemoteIdle
  /\ OthersIdle

NextCycle == cycle_insert_quarter \/ cycle_turn_crank

SpecCycle == InitCycle /\ [][NextCycle]_vars

\* a GumballMachine and a MessyGumballMachine constructed with the same
\* count and driven with the same calls
InitMessy ==
  /\ \E n \in 0..MaxGumballs : Constructed(n) /\ MessyConstructed(n)
  /\ RemoteIdle
  /\ OthersIdle

NextMessy == both_insert_quarter \/ both_eject_quarter \/ both_turn_crank

SpecMessy == InitMessy /\ [][NextMessy]_vars

\* a client of a RemoteControl with 0 to MaxSlots slots
InitRemote ==
  /\ GumballIdle
  /\ \E n \in 0..MaxSlots : RemoteConstructed(n)
  /\ NoLights
  /\ OthersIdle

NextRemote == set_command \/ click_on \/ click_off \/ undo

SpecRemote == InitRemote /\ [][NextRemote]_vars

\* largest n_slots of a RemoteControl whose lights are tracked as flags
MaxLitSlots == 1

\* the lights of Main.main
Lights == {LivingRoom, Kitchen}

\* a client of a RemoteControl whose two lights start in any on/off state
InitLights ==
  /\ GumballIdle
  /\ \E n \in 1..MaxLitSlots : RemoteConstructed(n)
  /\ lights \in [Lights -> BOOLEAN]
  /\ lightsAtClick = lights
  /\ OthersIdle

SpecLights == InitLights /\ [][NextRemote]_vars

\* a client of one OddNumbers(m) container
InitIterator ==
  /\ GumballIdle
  /\ RemoteIdle
  /\ NoLoggerCall
  /\ NoBeatCall
  /\ NoFlockCall
  /\ \E m \in -1..MaxMaximum : maximum = OddNumbers_init(m).maximum
  /\ it_n = <<>>
  /\ it_yielded = <<>>
  /\ it_last = <<>>

NextIterator == OddNumbers_iter \/ OddIterator_next_call

SpecIterator == InitIterator /\ [][NextIterator]_vars

\* a client that calls the logger classes of singleton.py
InitSingleton ==
  /\ GumballIdle
  /\ RemoteIdle
  /\ NoIterable
  /\ NoBeatCall
  /\ NoFlockCall
  /\ NoLoggerCall

NextSingleton == call_Logger \/ call_Logger_instance \/ call_MorePythonicLogger

SpecSingleton == InitSingleton /\ [][NextSingleton]_vars

\* a client of a new BeatModel
InitBeat ==
  /\ GumballIdle
  /\ RemoteIdle
  /\ NoIterable
  /\ NoLoggerCall
  /\ NoFlockCall
  /\ NoBeatCall

NextBeat == register_bpm_observer \/ beat_on \/ set_bpm

SpecBeat == InitBeat /\ [][NextBeat]_vars

\* a client of the duck simulator's objects
InitFlock ==
  /\ GumballIdle
  /\ RemoteIdle
  /\ OthersIdle

NextFlock == flock_add \/ flock_register_observer \/ quack

SpecFlock == InitFlock /\ [][NextFlock]_vars

\* ------------------------------------------------------------------- claims
\* the states a machine can rest in between two calls of the interface
RestingStates == {SoldOutState, NoQuarterState, HasQuarterState}

\* C1: for a machine constructed with inventory >= 0 and driven by
\* insert_quarter, eject_quarter and turn_crank, after every operation the
\* state is SoldOutState if and only if the count is 0.
C1_SoldOutIffEmpty ==
  n0 >= 0 => (state = SoldOutState <=> count = 0)

\* the last gumball was sold and the machine went to SoldOutState
C1_Witness ==
  /\ lastOp = "turn_crank"
  /\ prevState = HasQuarterState
  /\ prevCount = 1
  /\ state = SoldOutState
  /\ count = 0

\* C2: no public method of GumballMachine lets a caller break 'SoldOutState
\* iff count = 0': it holds after every call of insert_quarter, eject_quarter,
\* turn_crank, release_ball and set_state.
C2_PublicMethodsPreserve ==
  lastOp \in {"init", "insert_quarter", "eject_quarter", "turn_crank",
              "set_state", "release_ball"}
    => ((state = SoldOutState) = (count = 0))

\* C3: from NoQuarterState with n >= 1 gumballs, insert_quarter followed by
\* turn_crank with a draw other than 0 takes exactly one gumball and ends in
\* NoQuarterState if n - 1 > 0, else in SoldOutState.
C3_NonWinningCycle ==
  ( /\ lastOp = "turn_crank"
    /\ prevOp = "insert_quarter"
    /\ pre2State = NoQuarterState
    /\ pre2Count >= 1
    /\ winner \in 1..(WinnerRange - 1) )
  => /\ count = pre2Count - 1
     /\ state = IF pre2Count - 1 > 0 THEN NoQuarterState ELSE SoldOutState

\* a non-winning cycle that leaves gumballs in the machine
C3_Witness ==
  /\ lastOp = "turn_crank"
  /\ prevOp = "insert_quarter"
  /\ pre2State = NoQuarterState
  /\ pre2Count = 3
  /\ winner = 7
  /\ count = 2
  /\ state = NoQuarterState

\* C4: from NoQuarterState with n >= 2 gumballs, insert_quarter followed by
\* turn_crank with the draw 0 goes through WinnerState, takes exactly two
\* gumballs and ends in NoQuarterState if n - 2 > 0, else in SoldOutState.
C4_WinningCycle ==
  ( /\ lastOp = "turn_crank"
    /\ prevOp = "insert_quarter"
    /\ pre2State = NoQuarterState
    /\ pre2Count >= 2
    /\ winner = 0 )
  => /\ midState = WinnerState
     /\ count = pre2Count - 2
     /\ state = IF pre2Count - 2 > 0 THEN NoQuarterState ELSE SoldOutState

\* a winning cycle on the last two gumballs
C4_Witness ==
  /\ lastOp = "turn_crank"
  /\ prevOp = "insert_quarter"
  /\ pre2State = NoQuarterState
  /\ pre2Count = 2
  /\ winner = 0
  /\ midState = WinnerState
  /\ count = 0
  /\ state = SoldOutState

\* C5: with one gumball left, insert_quarter followed by turn_crank with the
\* draw 0 does not enter WinnerState: it goes through SoldState, takes the
\* one gumball and ends in SoldOutState.
C5_NoWinnerOnLastGumball ==
  ( /\ lastOp = "turn_crank"
    /\ prevOp = "insert_quarter"
    /\ pre2State = NoQuarterState
    /\ pre2Count = 1
    /\ winner = 0 )
  => /\ midState = SoldState
     /\ count = 0
     /\ state = SoldOutState

\* the draw 0 on the last gumball
C5_Witness ==
  /\ lastOp = "turn_crank"
  /\ prevOp = "insert_quarter"
  /\ pre2State = NoQuarterState
  /\ pre2Count = 1
  /\ prevState = HasQuarterState
  /\ winner = 0
  /\ midState = SoldState

C7_DispensingIsTransient ==
  /\ state \in RestingStates
  /\ (lastOp = "turn_crank" /\ midState = SoldState) => count = prevCount - 1
  /\ (lastOp = "turn_crank" /\ midState = WinnerState) => count = prevCount - 2
  /\ (lastOp = "turn_crank" /\ midState \in RestingStates) => count = prevCount

\* a turn_crank that went through SoldState has returned in a resting state
C7_Witness ==
  /\ lastOp = "turn_crank"
  /\ midState = SoldState
  /\ state = NoQuarterState
  /\ count = prevCount - 1

\* C8: a newly constructed GumballMachine(n) is in NoQuarterState if n > 0
\* and in SoldOutState otherwise, and its count is n.
C8_InitialState ==
  lastOp = "init"
    => /\ count = n0
       /\ (n0 > 0 => state = NoQuarterState)
       /\ (n0 <= 0 => state = SoldOutState)

\* a machine constructed empty
C8_Witness ==
  /\ lastOp = "init"
  /\ n0 = 0
  /\ state = SoldOutState

\* C9: insert_quarter moves NoQuarterState to HasQuarterState, leaves every
\* other state unchanged, and leaves the count unchanged in every state.
C9_InsertQuarter ==
  lastOp = "insert_quarter"
    => /\ (prevState = NoQuarterState => state = HasQuarterState)
       /\ (prevState # NoQuarterState => state = prevState)
       /\ count = prevCount

\* a quarter was accepted and a second one was refused
C9_Witness ==
  /\ lastOp = "insert_quarter"
  /\ prevOp = "insert_quarter"
  /\ pre2State = NoQuarterState
  /\ prevState = HasQuarterState
  /\ state = HasQuarterState

\* C10: eject_quarter moves HasQuarterState to NoQuarterState, leaves every
\* other state unchanged, and leaves the count unchanged in every state.
C10_EjectQuarter ==
  lastOp = "eject_quarter"
    => /\ (prevState = HasQuarterState => state = NoQuarterState)
       /\ (prevState # HasQuarterState => state = prevState)
       /\ count = prevCount

\* a quarter was returned and a second eject was refused
C10_Witness ==
  /\ lastOp = "eject_quarter"
  /\ prevOp = "eject_quarter"
  /\ pre2State = HasQuarterState
  /\ prevState = NoQuarterState
  /\ state = NoQuarterState

\* C11: turn_crank called in NoQuarterState or in SoldOutState, the dispense
\* that follows in the same call included, leaves the state and the count
\* unchanged, enters no other state on the way and draws nothing.
C11_TurnCrankWithoutQuarter ==
  (lastOp = "turn_crank" /\ prevState \in {NoQuarterState, SoldOutState})
    => /\ state = prevState
       /\ midState = prevState
       /\ count = prevCount
       /\ winner = NoDraw

\* the crank was turned on a stocked machine without a quarter
C11_Witness ==
  /\ lastOp = "turn_crank"
  /\ prevState = NoQuarterState
  /\ prevCount = 2
  /\ state = NoQuarterState
  /\ count = 2

\* C12: SoldOutState with count 0 is absorbing under insert_quarter,
\* eject_quarter and turn_crank.
C12_SoldOutAbsorbing ==
  [][(state = SoldOutState /\ count = 0)
       => (state' = SoldOutState /\ count' = 0)]_vars

\* a call was made on a sold-out machine
C12_Witness ==
  /\ prevState = SoldOutState
  /\ prevCount = 0
  /\ lastOp \in {"insert_quarter", "eject_quarter", "turn_crank"}
  /\ n0 > 0
  /\ state = SoldOutState

\* C13: constructing a GumballMachine with a negative inventory fails, so
\* no machine with a negative constructor argument or a negative count exists.
C13_NoNegativeMachine ==
  n0 >= 0 /\ count >= 0

\* C14: for a machine constructed with inventory >= 0 the count stays >= 0
\* under insert_quarter, eject_quarter, turn_crank and release_ball.
C14_CountNonNegative ==
  n0 >= 0 => count >= 0

\* release_ball was called on an empty machine and took nothing
C14_Witness ==
  /\ lastOp = "release_ball"
  /\ prevCount = 0
  /\ count = 0

\* the command the last successful click executed, the null command if no
\* click has succeeded yet
LastExecuted == IF ran = NoneObject THEN NullCommand ELSE ran

\* C15: click_on(idx) and click_off(idx) fail with an out-of-range error for
\* every idx < 0 and every idx >= n; no command is executed then and the
\* last command is unchanged.
C15_ClickOutOfRangeFails ==
  [][(/\ lastOp' \in {"click_on", "click_off"}
      /\ (args'[1] < 0 \/ args'[1] >= Len(on_cmds)))
       => (/\ raised' = "IndexError"
           /\ out' = <<>>
           /\ last_cmd' = last_cmd)]_vars

\* C16: after any sequence of set_command, click_on, click_off and undo the
\* last command is the command the most recent successful click executed
\* (the null command if there was none), also when the clicked slot has been
\* bound anew since; undo unexecutes that command.
C16_LastCmdIsLastExecuted ==
  /\ last_cmd = LastExecuted
  /\ (lastOp = "undo" => out = AbsCommand_unexecute(LastExecuted))

\* the only slot was clicked on, bound anew, and undo turned off the light
\* of the command that had run
C16_Witness ==
  /\ lastOp = "undo"
  /\ prevOp = "set_command"
  /\ Len(on_cmds) = 1
  /\ on_cmds[1] = light2oncmd
  /\ ran = light1oncmd
  /\ last_cmd = light1oncmd
  /\ out = <<LightPrint(LivingRoom, FALSE)>>

\* C17: a click_on(i) right after a successful set_command(i, A, D) executes
\* exactly A, a click_off(i) exactly D, and an undo right after a successful
\* click runs exactly the unexecute of the command that click executed.
C17_BindClickUndo ==
  [][/\ (/\ lastOp = "set_command" /\ raised = "none"
          /\ lastOp' = "click_on" /\ args'[1] = args[1])
         => (/\ raised' = "none"
             /\ ran' = args[2]
             /\ out' = AbsCommand_execute(args[2]))
     /\ (/\ lastOp = "set_command" /\ raised = "none"
          /\ lastOp' = "click_off" /\ args'[1] = args[1])
         => (/\ raised' = "none"
             /\ ran' = args[3]
             /\ out' = AbsCommand_execute(args[3]))
     /\ (/\ lastOp \in {"click_on", "click_off"} /\ raised = "none"
          /\ lastOp' = "undo")
         => (/\ raised' = "none"
             /\ ran' = ran
             /\ out' = AbsCommand_unexecute(ran))]_vars

\* the Kitchen light was switched on by a click and off again by undo
C17_Witness ==
  /\ lastOp = "undo"
  /\ prevOp = "click_on"
  /\ raised = "none"
  /\ ran = light2oncmd
  /\ light2oncmd \in {on_cmds[i] : i \in 1..Len(on_cmds)}
  /\ out = <<LightPrint(Kitchen, FALSE)>>

\* C18: a MacroCommand executes its commands in list order and unexecutes
\* them in the same order; undo after click_off on the macro slot of
\* Main.main turns on Living Room and then Kitchen.
C18_MacroOrder ==
  /\ (/\ lastOp \in {"click_on", "click_off"} /\ raised = "none"
       /\ ran.kind = "MacroCommand")
      => /\ Len(out) = Len(ran.cmds)
         /\ \A i \in 1..Len(ran.cmds) : <<out[i]>> = AbsCommand_execute(ran.cmds[i])
  /\ (lastOp = "undo" /\ last_cmd.kind = "MacroCommand")
      => /\ Len(out) = Len(last_cmd.cmds)
         /\ \A i \in 1..Len(last_cmd.cmds) :
              <<out[i]>> = AbsCommand_unexecute(last_cmd.cmds[i])
  /\ (lastOp = "undo" /\ last_cmd = macro_off_cmd)
      => out = <<LightPrint(LivingRoom, TRUE), LightPrint(Kitchen, TRUE)>>

\* the end of the documented transcript: undo after click_off on the macro
C18_Witness ==
  /\ lastOp = "undo"
  /\ prevOp = "click_off"
  /\ last_cmd = macro_off_cmd
  /\ out = <<LightPrint(LivingRoom, TRUE), LightPrint(Kitchen, TRUE)>>

\* C19: set_command with idx < 0 or idx >= n fails with an error and leaves
\* every on and off binding and the last command unchanged.
C19_SetCommandOutOfRange ==
  [][(/\ lastOp' = "set_command"
      /\ (args'[1] < 0 \/ args'[1] >= Len(on_cmds)))
       => (/\ raised' # "none"
           /\ on_cmds' = on_cmds
           /\ off_cmds' = off_cmds
           /\ last_cmd' = last_cmd)]_vars

\* set_command(-1, ...) was refused on a remote where -1 is a list position
C19_Witness ==
  /\ lastOp = "set_command"
  /\ args[1] = -1
  /\ Len(on_cmds) = 2
  /\ raised = "AssertionError"
  /\ on_cmds[2] = NullCommand
  /\ off_cmds[2] = NullCommand

\* C20: undo on a RemoteControl on which no click has happened makes no
\* light print and raises nothing; undo raises nothing in any state.
C20_UndoIsSafe ==
  lastOp = "undo"
    => /\ raised = "none"
       /\ (ran = NoneObject => out = <<>>)

\* undo on a remote with a bound slot that was never clicked
C20_Witness ==
  /\ lastOp = "undo"
  /\ prevOp = "set_command"
  /\ ran = NoneObject
  /\ Len(on_cmds) >= 1
  /\ on_cmds[1] = light1oncmd
  /\ raised = "none"
  /\ out = <<>>

\* C21: undo changes neither the last command nor any binding, so
\* consecutive undo calls run the unexecute of the same command again.
C21_UndoIsSingleLevel ==
  [][lastOp' = "undo"
       => (/\ on_cmds' = on_cmds
           /\ off_cmds' = off_cmds
           /\ last_cmd' = last_cmd
           /\ out' = AbsCommand_unexecute(last_cmd)
           /\ (lastOp = "undo" => out' = out))]_vars

\* a second undo in a row switched the Kitchen light off once more
C21_Witness ==
  /\ lastOp = "undo"
  /\ prevOp = "undo"
  /\ last_cmd = light2oncmd
  /\ out = <<LightPrint(Kitchen, FALSE)>>

\* C22: set_command(i, A, D) with 0 <= i < n binds A to the on button and D
\* to the off button of slot i and changes no other binding and not the
\* last command.
C22_SetCommandFrame ==
  [][(/\ lastOp' = "set_command"
      /\ 0 <= args'[1] /\ args'[1] < Len(on_cmds))
       => (/\ raised' = "none"
           /\ on_cmds' = [on_cmds EXCEPT ![args'[1] + 1] = args'[2]]
           /\ off_cmds' = [off_cmds EXCEPT ![args'[1] + 1] = args'[3]]
           /\ last_cmd' = last_cmd)]_vars

\* slot 1 was bound to the Kitchen commands, slot 0 kept the Living Room ones
C22_Witness ==
  /\ lastOp = "set_command"
  /\ raised = "none"
  /\ args = <<1, light2oncmd, light2offcmd>>
  /\ on_cmds = <<light1oncmd, light2oncmd>>
  /\ off_cmds = <<light1offcmd, light2offcmd>>

\* C23: a RemoteControl(n) has n on slots and n off slots in every state;
\* right after construction every slot and the last command are the null
\* command; a click on a slot that was never bound makes no light print.
C23_SlotsFixed ==
  /\ Len(on_cmds) = remote_n
  /\ Len(off_cmds) = remote_n
  /\ lastOp = "init"
       => /\ \A i \in 1..remote_n :
               on_cmds[i] = NullCommand /\ off_cmds[i] = NullCommand
          /\ last_cmd = NullCommand
  /\ (/\ lastOp \in {"click_on", "click_off"}
       /\ raised = "none"
       /\ args[1] \in 0..(remote_n - 1)
       /\ on_cmds[args[1] + 1] = NullCommand
       /\ off_cmds[args[1] + 1] = NullCommand)
       => out = <<>> /\ last_cmd = NullCommand

\* slot 1 was clicked while only slot 0 had been bound
C23_Witness ==
  /\ lastOp = "click_on"
  /\ prevOp = "set_command"
  /\ raised = "none"
  /\ remote_n = 2
  /\ args = <<1>>
  /\ on_cmds = <<light1oncmd, NullCommand>>
  /\ out = <<>>

\* C28 as stated: a click on a slot bound to the two commands of a light L,
\* followed by undo, leaves L in the on/off state it had before the click,
\* for every prior state of L.
C28_UndoRestoresLight ==
  [][(/\ lastOp \in {"click_on", "click_off"}
      /\ raised = "none"
      /\ ran.kind \in {"LightOnCommand", "LightOffCommand"}
      /\ lastOp' = "undo")
       => lights'[ran.light] = lightsAtClick[ran.light]]_vars

\* C28 amended: undo after a click that ran LightOnCommand(L) leaves L off,
\* undo after a click that ran LightOffCommand(L) leaves L on; that is the
\* state L had before the click if and only if the click changed it.
C28_UndoSwitchesBack ==
  [][(/\ lastOp \in {"click_on", "click_off"}
      /\ raised = "none"
      /\ ran.kind \in {"LightOnCommand", "LightOffCommand"}
      /\ lastOp' = "undo")
       => (/\ lights'[ran.light] = (ran.kind = "LightOffCommand")
           /\ (lights'[ran.light] = lightsAtClick[ran.light])
                 = (lights[ran.light] # lightsAtClick[ran.light])
           /\ \A l \in Lights \ {ran.light} : lights'[l] = lights[l])]_vars

\* the Kitchen light was on, was clicked on, and undo left it off
C28_Witness ==
  /\ lastOp = "undo"
  /\ prevOp = "click_on"
  /\ ran = light2oncmd
  /\ lightsAtClick[Kitchen] = TRUE
  /\ lights[Kitchen] = FALSE

\* C29: under insert_quarter, eject_quarter and turn_crank on a machine
\* constructed with N >= 0 gumballs every release_ball finds a gumball to
\* take, so the number of 'A gumball comes rolling out' prints is always N
\* minus the count.
C29_EveryRollIsAGumball ==
  n0 >= 0 => (rolled = n0 - count /\ rolled >= 0)

\* a winner took the last two gumballs of three: three prints, count 0
C29_Witness ==
  /\ n0 = 3
  /\ lastOp = "turn_crank"
  /\ midState = WinnerState
  /\ rolled = 3
  /\ count = 0

\* C30: under insert_quarter, eject_quarter and turn_crank WinnerState's
\* dispense is entered with a count of at least 2 only, so both of its
\* release_ball calls take a gumball.
C30_WinnerHasTwoGumballs ==
  midState = WinnerState
    => /\ lastOp = "turn_crank"
       /\ prevCount >= 2
       /\ count = prevCount - 2

\* a winner with exactly two gumballs left
C30_Witness ==
  /\ midState = WinnerState
  /\ lastOp = "turn_crank"
  /\ winner = 0
  /\ prevCount = 2
  /\ count = 0
  /\ state = SoldOutState

\* the odd integers from 1 to m, in increasing order
OddsUpTo(m) == [k \in 1..((m + 1) \div 2) |-> 2 * k - 1]

\* C24: each iterator of OddNumbers(m) yields the odd integers 1, 3, 5, ...
\* <= m in increasing order and then raises StopIteration; an exhausted
\* iterator raises StopIteration on every further __next__; every __iter__
\* call starts a fresh iterator that advances independently of the others.
C24_OddIterator ==
  /\ [](\A i \in 1..Len(it_n) :
         /\ Len(it_yielded[i]) <= Len(OddsUpTo(maximum))
         /\ it_yielded[i] = SubSeq(OddsUpTo(maximum), 1, Len(it_yielded[i]))
         /\ it_last[i] = "new" => it_yielded[i] = <<>>
         /\ it_last[i] = "StopIteration" => it_yielded[i] = OddsUpTo(maximum))
  /\ [][\A i \in 1..Len(it_n) :
           it_last[i] = "StopIteration"
             => it_last'[i] = "StopIteration" /\ it_yielded'[i] = it_yielded[i]]_vars

\* OddNumbers(7): the first iterator is exhausted after 1, 3, 5, 7 and was
\* asked again, the second has yielded 1 only
C24_Witness ==
  /\ maximum = 7
  /\ Len(it_n) = 2
  /\ it_yielded[1] = <<1, 3, 5, 7>>
  /\ it_last[1] = "StopIteration"
  /\ it_n[1] = 11
  /\ it_yielded[2] = <<1>>

\* the positions in calls of the calls of op
CallsOf(op) == {k \in 1..Len(calls) : calls[k].op = op}

\* C25: Logger.instance() creates an instance on its first call only and
\* returns that object on every later call; Logger() always raises
\* RuntimeError and returns nothing; so the callers hold at most one Logger.
C25_LoggerSingleton ==
  /\ \A k \in CallsOf("Logger") :
       calls[k].raised = "RuntimeError" /\ calls[k].result = None
  /\ \A k \in CallsOf("Logger.instance") :
       /\ calls[k].raised = "none"
       /\ calls[k].result # None
       /\ calls[k].result = logger_instance
       /\ calls[k].printed = (\A j \in CallsOf("Logger.instance") : k <= j)
  /\ Cardinality({calls[k].result :
                    k \in CallsOf("Logger") \cup CallsOf("Logger.instance")}
                  \ {None}) <= 1

\* instance(), Logger(), instance(): the third call returned the first object
C25_Witness ==
  /\ Len(calls) = 3
  /\ calls[1].op = "Logger.instance"
  /\ calls[2].op = "Logger"
  /\ calls[2].raised = "RuntimeError"
  /\ calls[3].op = "Logger.instance"
  /\ calls[3].result = calls[1].result
  /\ calls[3].printed = FALSE

\* C26: every MorePythonicLogger(a) call returns the same object, created
\* on the first call only, and get_a() through any reference returns the
\* argument of the most recent call.
C26_MorePythonicLogger ==
  \A k \in CallsOf("MorePythonicLogger") :
    /\ calls[k].raised = "none"
    /\ calls[k].result = mp_instance
    /\ calls[k].printed = (\A j \in CallsOf("MorePythonicLogger") : k <= j)
    /\ \A j \in CallsOf("MorePythonicLogger") :
         (\A i \in CallsOf("MorePythonicLogger") : i <= j)
           => MorePythonicLogger_get_a(Singletons, calls[k].result) = calls[j].arg

\* Main.main: MorePythonicLogger(1), then MorePythonicLogger(2); log1.get_a()
\* is 2
C26_Witness ==
  /\ Len(calls) = 2
  /\ calls[1].op = "MorePythonicLogger" /\ calls[1].arg = 1
  /\ calls[2].op = "MorePythonicLogger" /\ calls[2].arg = 2
  /\ calls[1].result = calls[2].result
  /\ MorePythonicLogger_get_a(Singletons, calls[1].result) = 2

\* how often the observer o is in the sequence updated
TimesIn(o, updated) == Cardinality({k \in 1..Len(updated) : updated[k] = o})

\* C27: set_bpm(b) completes without error, makes get_bpm() return b, and
\* calls update_bpm on every registered bpm observer exactly once.
C27_SetBpmNotifies ==
  lastOp = "set_bpm"
    => /\ beat_raised = "none"
       /\ BeatModel_get_bpm(Beat) = beat_arg
       /\ \A k \in 1..Len(bpm_observers) :
            TimesIn(bpm_observers[k], notified) = 1

\* the counts the machine can have when its next public call returns: the
\* three calls of the interface with every draw, set_state with every state
\* object, and release_ball
CountsAfterNextCall ==
  {GumballMachine_insert_quarter(Machine).count,
   GumballMachine_eject_quarter(Machine).count,
   GumballMachine_release_ball(Machine).count}
    \cup {GumballMachine_turn_crank(Machine, w).count : w \in 0..(WinnerRange - 1)}
    \cup {GumballMachine_set_state(Machine, s).count : s \in StateObjects}

\* C31: a machine constructed with N >= 1 gumballs and driven by the pairs
\* insert_quarter(); turn_crank() is sold out once N pairs are completed,
\* whatever was drawn, and is not sold out before ceil(N/2) pairs are (that
\* is, 2 * pairs >= N whenever it is sold out); no call of the client makes
\* the count larger, and no public call the machine offers in a state the
\* client reaches would.
C31_CyclesToSoldOut ==
  /\ [](n0 >= 1 =>
         /\ (cycles >= n0 => state = SoldOutState)
         /\ (state = SoldOutState => 2 * cycles >= n0)
         /\ \A c \in CountsAfterNextCall : c <= count)
  /\ [][count' <= count]_vars

\* a machine of three or more gumballs sold out in the fewest pairs possible,
\* every pair but (for odd N) the last a winner
C31_Witness ==
  /\ n0 >= 3
  /\ lastOp = "turn_crank"
  /\ state = SoldOutState
  /\ count = 0
  /\ cycles = (n0 + 1) \div 2

\* the state object of a GumballMachine that a GumballState stands for
StateObjectOf(gs) ==
  CASE gs = SOLD_OUT -> SoldOutState
    [] gs = NO_QUARTER -> NoQuarterState
    [] gs = HAS_QUARTER -> HasQuarterState
    [] gs = SOLD -> SoldState

\* C32: a MessyGumballMachine and a GumballMachine constructed with the same
\* count >= 0 and given the same calls of insert_quarter, eject_quarter and
\* turn_crank (the messy one with dispense() right after each turn_crank(),
\* the other with non-winning draws only) are, after construction and after
\* every call, in corresponding states SOLD_OUT ~ SoldOutState, NO_QUARTER ~
\* NoQuarterState, HAS_QUARTER ~ HasQuarterState, with equal counts.
C32_MessyEquivalent ==
  /\ messy_state \in {SOLD_OUT, NO_QUARTER, HAS_QUARTER}
  /\ StateObjectOf(messy_state) = state
  /\ messy_count = count

\* both machines sold their last gumball, after an earlier sale
C32_Witness ==
  /\ n0 >= 2
  /\ lastOp = "turn_crank"
  /\ prevState = HasQuarterState
  /\ winner \in 1..(WinnerRange - 1)
  /\ messy_state = SOLD_OUT
  /\ messy_count = 0
  /\ rolled = n0

\* how often the last call called o.update(d)
UpdatesOf(o, d) ==
  Cardinality({k \in 1..Len(updates) : updates[k] = [observer |-> o, duck |-> d]})

\* C33: every flock.register_observer(o) registers o on the ducks the flock
\* holds at that moment, through nested Flocks and QuackCounters, once for
\* each time it holds them, and on nothing else, so that every duck carries
\* exactly the registrations those calls owed it; a later quack() of a duck,
\* made directly or through a QuackCounter or a Flock, calls o.update once
\* per such registration each time the duck quacks, and a duck that joined a
\* Flock after the registration, being owed none, makes no call.
C33_FlockRegistration ==
  \A d \in Ducks, o \in Quackologists :
    /\ TimesIn(o, observers[d]) = registered[d][o]
    /\ quacked # "" =>
         UpdatesOf(o, d) = registered[d][o] * Occurrences(Pond, quacked, d)

\* the observer was registered through flock_of_ducks when it held the
\* wrapped red head duck only; the goose joined later, and a quack() of the
\* outer flock made one update, for the red head duck
C33_Witness ==
  /\ quackers[flock_of_mallards] = <<flock_of_ducks>>
  /\ quackers[flock_of_ducks] = <<red_head_duck, goose_duck>>
  /\ registered[RedHeadDuck]["quackologist"] = 1
  /\ registered[goose_duck]["quackologist"] = 0
  /\ quacked = flock_of_mallards
  /\ updates = <<[observer |-> "quackologist", duck |-> RedHeadDuck]>>

====
